---- MODULE Spec2Model ----
(***************************************************************************)
(* Model of the secrets sync daemon, services/secrets-sync-daemon.ts.       *)
(*                                                                         *)
(* Each element of Procs is one OS process hosting one SecretsSyncDaemon   *)
(* instance.  The processes share the lock file and the state file.  A     *)
(* process runs one synchronous stretch of JavaScript at a time; the       *)
(* stretches of one process are the actions below.  start() is split at    *)
(* its file-system calls (lock check, stale-lock removal, lock write) and  *)
(* performSync() between its read and its write of the state file, where   *)
(* another OS process can run in between.  Time is a global clock counted  *)
(* in hours.                                                               *)
(*                                                                         *)
(* The second part models GitHubRepoDiscovery (services/                   *)
(* github-repo-discovery.ts): one instance, its cache file and the         *)
(* organization's repository list on the GitHub side.                      *)
(***************************************************************************)
EXTENDS Integers, FiniteSets, Sequences

\* ------------------------------------------------------------------ bounds
MaxTime == 2
IntervalHours == 1
MaxStarts == 2
MaxPasses == 2
\* Page size of the repository listing (perPage, 100 in the code)
PerPage == 2
\* CACHE_TTL_HOURS
CACHE_TTL_HOURS == 1

Procs == {1, 2}
\* A process identifier that no running process has: a daemon of an earlier
\* boot that died without releasing its lock.
DeadPid == 0

\* File contents.  A file that exists holds either unparsable text or a record.
NoFile == [kind |-> "absent"]
CorruptFile == [kind |-> "corrupt"]
\* A file whose text parses to a value that is no object (null, a number).
NullFile == [kind |-> "null"]

\* null, the empty string of an unset timestamp, and a set value
NULL == {}
Some(x) == {x}

Outcomes == {"ok", "fail", "throw"}

VARIABLES
    now,                \* wall clock, hours
    lockFile,           \* LOCK_FILE: NoFile, CorruptFile or the record of a pid
    stateFile,          \* STATE_FILE: NoFile or a SyncStatus record
    alive,              \* alive[p]: the OS process exists (process.kill(p, 0) succeeds)
    enabled,            \* config.enabled, the same for every daemon of the installation
    isRunning,          \* this.isRunning
    intervalHandle,     \* this.intervalHandle: NULL or the handle of the last timer armed
    shutdownRequested,  \* this.shutdownRequested
    handlers,           \* number of SIGINT/SIGTERM handler pairs registered in the process
    timers,             \* pending setTimeout timers of the process (by deadline)
    pc,                 \* where the process stands between two file-system calls
    probe,              \* what the isLocked() of the start() in progress found
    inflight,           \* passes in flight: [ts, origin, phase, end]
    loaded,             \* the status performSync() has loaded and updated, not yet saved
    startResult,        \* outcome of the latest start() call
    calls,              \* executor invocations made by the process
    completed,          \* passes completed (executor settled, ledger saved) by the process
    lastPass,           \* the process's latest completed pass: [ts, end]
    passesDone,         \* passes completed by all daemons together
    lastDone,           \* the latest completed pass of any daemon: [ts, end]
    lockWritable,       \* the state directory can be created and LOCK_FILE written
    cacheFile,          \* CACHE_FILE: NoFile, CorruptFile, NullFile or a CacheData record
    config,             \* this.config of the discovery: the filters
    remote,             \* the organization's repositories as the GitHub API lists them
    discPc,             \* "idle", or "fetching" while discoverRepositories() pages
    forceRefresh,       \* the argument of the latest discoverRepositories() call
    page,               \* page, the next page to request
    repos,              \* repos, the pages fetched so far
    result,             \* what the latest discoverRepositories() call returned or threw
    hadUsable,          \* a usable cache entry existed when that call was made
    cachedBy,           \* the config of the instance that wrote the cache entry, if any
    requests,           \* listForOrg requests the latest discoverRepositories() call made
    answer              \* what the latest static isRunning() or getStatus() call returned

vars == <<now, lockFile, stateFile, alive, enabled, isRunning, intervalHandle,
          shutdownRequested, handlers, timers, pc, probe, inflight, loaded,
          startResult, calls, completed, lastPass, passesDone, lastDone,
          lockWritable,
          cacheFile, config, remote, discPc, forceRefresh, page, repos, result,
          hadUsable, cachedBy, requests, answer>>

fileVars == <<lockFile, stateFile>>
histVars == <<calls, completed, lastPass, passesDone, lastDone>>
discVars == <<cacheFile, config, remote, discPc, forceRefresh, page, repos, result,
              hadUsable, cachedBy, requests>>
\* What no step of the daemon changes.
otherVars == <<lockWritable, discVars, answer>>
daemonVars == <<lockFile, stateFile, alive, enabled, isRunning, intervalHandle,
                shutdownRequested, handlers, timers, pc, probe, inflight, loaded,
                startResult, calls, completed, lastPass, passesDone, lastDone,
                lockWritable, answer>>

\* ----------------------------------------------------------- pure helpers

\* A pid of 0 or below in a lock record: process.kill() takes it for a process
\* group, that of the caller for 0.
GroupPid == -1

\* A lock file that parses to a record without a pid, and one whose pid is no
\* process identifier
NoPidLock == [kind |-> "lock"]
GroupLock == [kind |-> "lock", pid |-> GroupPid]

\* process.kill(pid, 0) does not throw: the process exists, or the pid names
\* a process group the signal can be sent to
IsLive(pid) == pid = GroupPid \/ (pid \in Procs /\ alive[pid])

\* isLocked() without the liveness probe of lines 203-211: any parsable record
\* whose process is not probed counts as stale.
LockProbe_IgnoresLiveness(file) ==
    IF file = NoFile THEN "free"
    ELSE IF file = CorruptFile THEN "invalid"
    ELSE "stale"

\* isLocked() up to its decision: what the lock file holds
LockProbe(file) ==
    IF file = NoFile THEN "free"
    ELSE IF file = CorruptFile \/ file = NullFile THEN "invalid"
    ELSE IF "pid" \notin DOMAIN file THEN "stale"
    ELSE IF IsLive(file.pid) THEN "held"
    ELSE "stale"

\* No static query made yet
NoAnswer == [query |-> "none"]

\* static isRunning() taking any lock file that exists for a running daemon
IsRunningQuery_AnyLockFile(file) == file # NoFile

\* static isRunning(), lines 306-325: false without a lock file, false when
\* the file does not parse, else whether process.kill(pid, 0) succeeds.
IsRunningQuery(file) ==
    IF file = NoFile THEN FALSE
    ELSE IF file = CorruptFile \/ file = NullFile THEN FALSE
    ELSE IF "pid" \notin DOMAIN file THEN FALSE
    ELSE IsLive(file.pid)

\* static getStatus() without the try/catch of lines 293-299
GetStatus_NoCatch(file) ==
    IF file = NoFile THEN NULL
    ELSE Some(file)

\* static getStatus(), lines 292-301: null without a state file and when
\* reading or parsing throws, else what JSON.parse returns (null for a file
\* holding the JSON text null).
GetStatus(file) ==
    IF file = NoFile THEN NULL
    ELSE IF file = CorruptFile THEN NULL
    ELSE IF file = NullFile THEN NULL
    ELSE Some(file)

\* The repositories a pass works on: the sync function pushes the secrets to
\* them and reports one success flag and one message for all of them.
PassRepos == {"a", "b"}

\* removeLock(): unlink the file if it exists, whatever it holds
RemoveLock(file) == NoFile

\* createLock(): the record written over whatever the file holds.  The record's
\* startedAt field is written and never read by the daemon; it is left out.
CreateLock(p) == [kind |-> "lock", pid |-> p]

\* createLock(), lines 223-236: the lock file after the call; when mkdirSync
\* or writeFileSync throws, the catch logs the error and the file is as before.
LockAfterCreate(file, p, writable) == IF writable THEN CreateLock(p) ELSE file

\* loadStatus(): the parsed file, or the default status
DefaultStatus ==
    [kind |-> "status", lastSync |-> NULL, nextSync |-> NULL,
     successCount |-> 0, failureCount |-> 0, repositories |-> {}]

\* A file that is absent or does not parse gives the default; a file that
\* parses is returned as JSON.parse gives it, an object or not.
LoadStatus(file) ==
    IF file = NoFile \/ file = CorruptFile THEN DefaultStatus ELSE file

\* calculateNextSync(): the current time plus the interval
CalculateNextSync(t) == t + IntervalHours

\* performSync() computing nextSync from the pass's start timestamp
PassStatus_NextFromStart(file, ts, t, o) ==
    LET status == LoadStatus(file) IN
    [kind         |-> "status",
     lastSync     |-> Some(ts),
     nextSync     |-> Some(CalculateNextSync(ts)),
     successCount |-> IF o = "ok" THEN status.successCount + 1 ELSE status.successCount,
     failureCount |-> IF o = "ok" THEN status.failureCount ELSE status.failureCount + 1,
     repositories |-> status.repositories]

\* performSync() not testing result.success: a returned failure counts as a success
PassStatus_ResultUnchecked(file, ts, t, o) ==
    LET status == LoadStatus(file) IN
    [kind         |-> "status",
     lastSync     |-> Some(ts),
     nextSync     |-> Some(CalculateNextSync(t)),
     successCount |-> IF o # "throw" THEN status.successCount + 1 ELSE status.successCount,
     failureCount |-> IF o # "throw" THEN status.failureCount ELSE status.failureCount + 1,
     repositories |-> status.repositories]

\* The status performSync() builds for a pass started at ts whose executor
\* settled with outcome o at time t: the loaded status with the timestamps set
\* and one counter incremented (lines 124-134 for a result, 140-143 for a throw).
\* The repositories map is written back as it was loaded.
PassStatus(file, ts, t, o) ==
    LET status == LoadStatus(file) IN
    [kind         |-> "status",
     lastSync     |-> Some(ts),
     nextSync     |-> Some(CalculateNextSync(t)),
     successCount |-> IF o = "ok" THEN status.successCount + 1 ELSE status.successCount,
     failureCount |-> IF o = "ok" THEN status.failureCount ELSE status.failureCount + 1,
     repositories |-> status.repositories]

\* saveStatus(): the file after the write
SaveStatus(status) == status

\* setTimeout with no delay
ScheduleDeadline_NoDelay(t) == t

\* scheduleNextSync(), line 158: the time the timer it arms at time t is due
ScheduleDeadline(t) == t + IntervalHours

\* scheduleNextSync(): the timers and handle after the call
ScheduleNextSync(p) ==
    IF shutdownRequested[p]
    THEN /\ UNCHANGED <<timers, intervalHandle>>
    ELSE /\ timers' = [timers EXCEPT ![p] = @ \cup {ScheduleDeadline(now)}]
         /\ intervalHandle' = [intervalHandle EXCEPT ![p] = Some(ScheduleDeadline(now))]

\* The flow a performSync call puts in flight
NewPass(origin) == [ts |-> now, origin |-> origin, phase |-> "exec", end |-> NULL]

ExecFlows(p) == {f \in inflight[p] : f.phase = "exec"}

\* Passes completed or with the executor running, and start() calls on their
\* way to the initial pass: what the bound MaxPasses counts.
Begun(p) == Cardinality(ExecFlows(p)) + (IF pc[p] = "idle" THEN 0 ELSE 1)

RECURSIVE BegunIn(_)
BegunIn(S) ==
    IF S = {} THEN 0
    ELSE LET p == CHOOSE q \in S : TRUE IN Begun(p) + BegunIn(S \ {p})

PassBudgetLeft == passesDone + BegunIn(Procs) < MaxPasses

\* ---------------------------------------------- discovery: values and helpers

\* config.organization, and the organization of a cache entry written for
\* another configuration
Org == "acme"
OtherOrg == "other"

\* Repository records (name, private, archived; the other fields are copied
\* through and never looked at), and a null element of a parsed list.
RepoA == [kind |-> "repo", name |-> "a", private |-> FALSE, archived |-> FALSE]
RepoB == [kind |-> "repo", name |-> "b", private |-> TRUE, archived |-> FALSE]
RepoC == [kind |-> "repo", name |-> "c", private |-> FALSE, archived |-> TRUE]
NullRepo == [kind |-> "null"]

\* What the organization can hold
RemoteLists == {<<>>, <<RepoA>>, <<RepoA, RepoB>>, <<RepoA, RepoB, RepoC>>}

Configs ==
    [includeArchived : BOOLEAN, includePrivate : BOOLEAN, excludeRepos : {{}, {"a"}}]

\* What a failed listForOrg request throws: an HTTP error carrying the status
\* of the response, or an error without one when no response arrived.
HttpError(status) == [name |-> "HttpError", status |-> status]
NetworkError == [name |-> "FetchError"]
RequestErrors == {HttpError(403), HttpError(401), NetworkError}

\* What reading a property of null throws
TypeError == [name |-> "TypeError"]

\* new Error("GitHub API rate limit exceeded"), line 169
RateLimitError == [name |-> "Error", message |-> "GitHub API rate limit exceeded"]

\* The catch of lines 165-174 rethrowing whatever it caught
SurfaceError_Rethrow(e) == e

\* The catch of lines 165-174: what it throws for the error it caught
SurfaceError(e) ==
    IF "status" \in DOMAIN e /\ e.status = 403 THEN RateLimitError ELSE e

NoResult == [kind |-> "none"]
Returned(list) == [kind |-> "ok", repos |-> list]
Thrown(e) == [kind |-> "error", error |-> e]

\* cacheRepos(), lines 85-89: the CacheData record
CacheData(list, t, org) ==
    [kind |-> "cache", repositories |-> list, lastFetch |-> t, organization |-> org]

WellFormed(list) == \A i \in 1..Len(list) : list[i].kind = "repo"

\* getCachedRepos() with the age test admitting an entry exactly one TTL old
GetCachedRepos_TtlInclusive(file, t, org) ==
    IF file.kind # "cache" THEN NULL
    ELSE IF t - file.lastFetch <= CACHE_TTL_HOURS /\ file.organization = org
    THEN Some(file.repositories)
    ELSE NULL

\* getCachedRepos(): NULL, or the repositories of the entry.  A file that is
\* absent, does not parse or parses to null ends in "return null" (line 53 or
\* the catch of lines 69-72).
GetCachedRepos(file, t, org) ==
    IF file.kind # "cache" THEN NULL
    ELSE IF t - file.lastFetch < CACHE_TTL_HOURS /\ file.organization = org
    THEN Some(file.repositories)
    ELSE NULL

\* cacheRepos() keeping the fetch time of the entry it overwrites
CacheRepos_KeepsTimestamp(file, list, t, org, written) ==
    IF ~written THEN file
    ELSE IF file.kind = "cache" THEN CacheData(list, file.lastFetch, org)
    ELSE CacheData(list, t, org)

\* cacheRepos(): the cache file after the call; a failed mkdirSync or
\* writeFileSync is caught and logged, the file is as before.
CacheRepos(file, list, t, org, written) ==
    IF written THEN CacheData(list, t, org) ELSE file

\* The predicate of the three filters of filterRepositories()
Keeps(r, cfg) ==
    /\ cfg.includeArchived \/ ~r.archived
    /\ cfg.includePrivate \/ ~r.private
    /\ r.name \notin cfg.excludeRepos

\* filterRepositories() reads repo.archived, repo.private or repo.name of
\* every element as soon as one filter is active: a TypeError on a null element.
FilterThrows(list, cfg) ==
    /\ ~WellFormed(list)
    /\ ~cfg.includeArchived \/ ~cfg.includePrivate \/ cfg.excludeRepos # {}

\* filterRepositories() with the private filter applied to the input list
\* instead of the list the archived filter left
Filtered_PrivateFromInput(list, cfg) ==
    LET a == IF ~cfg.includeArchived
             THEN SelectSeq(list, LAMBDA r : ~r.archived) ELSE list
        b == IF ~cfg.includePrivate
             THEN SelectSeq(list, LAMBDA r : ~r.private) ELSE a
    IN  IF cfg.excludeRepos # {}
        THEN SelectSeq(b, LAMBDA r : r.name \notin cfg.excludeRepos) ELSE b

\* filterRepositories() on a list of repositories, lines 181-199: the three
\* filters one after the other, each only when the configuration asks for it.
Filtered(list, cfg) ==
    LET a == IF ~cfg.includeArchived
             THEN SelectSeq(list, LAMBDA r : ~r.archived) ELSE list
        b == IF ~cfg.includePrivate
             THEN SelectSeq(a, LAMBDA r : ~r.private) ELSE a
    IN  IF cfg.excludeRepos # {}
        THEN SelectSeq(b, LAMBDA r : r.name \notin cfg.excludeRepos) ELSE b

\* filterRepositories(): what the caller gets
FilterRepositories(list, cfg) ==
    IF FilterThrows(list, cfg) THEN Thrown(TypeError)
    ELSE IF ~WellFormed(list) THEN Returned(list)
    ELSE Returned(Filtered(list, cfg))

\* octokit.rest.repos.listForOrg, lines 121-126: page n of the listing
PageOf(list, n) ==
    LET first == (n - 1) * PerPage + 1
        last == IF n * PerPage < Len(list) THEN n * PerPage ELSE Len(list)
    IN  SubSeq(list, first, last)

\* The discovery before any call, on an empty cache directory
DiscoveryAtRest ==
    /\ cacheFile = NoFile
    /\ config = [includeArchived |-> FALSE, includePrivate |-> FALSE, excludeRepos |-> {}]
    /\ remote = <<>>
    /\ discPc = "idle"
    /\ forceRefresh = FALSE
    /\ page = 0
    /\ repos = <<>>
    /\ result = NoResult
    /\ hadUsable = FALSE
    /\ cachedBy = NULL
    /\ requests = 0

\* ------------------------------------------------------------------- Init
Init ==
    /\ now = 0
    /\ lockFile \in {NoFile, CorruptFile, CreateLock(DeadPid)}
    /\ stateFile = NoFile
    /\ alive = [p \in Procs |-> TRUE]
    /\ enabled \in BOOLEAN
    /\ isRunning = [p \in Procs |-> FALSE]
    /\ intervalHandle = [p \in Procs |-> NULL]
    /\ shutdownRequested = [p \in Procs |-> FALSE]
    /\ handlers = [p \in Procs |-> 0]
    /\ timers = [p \in Procs |-> {}]
    /\ pc = [p \in Procs |-> "idle"]
    /\ probe = [p \in Procs |-> "none"]
    /\ inflight = [p \in Procs |-> {}]
    /\ loaded = [p \in Procs |-> NoFile]
    /\ startResult = [p \in Procs |-> "none"]
    /\ calls = [p \in Procs |-> 0]
    /\ completed = [p \in Procs |-> 0]
    /\ lastPass = [p \in Procs |-> NULL]
    /\ passesDone = 0
    /\ lastDone = NULL
    /\ lockWritable = TRUE
    /\ DiscoveryAtRest
    /\ answer = NoAnswer

\* ---------------------------------------------------------------- actions

\* The clock advances.
Tick ==
    /\ now < MaxTime
    /\ now' = now + 1
    /\ UNCHANGED <<fileVars, alive, enabled, isRunning, intervalHandle, shutdownRequested,
                   handlers, timers, pc, probe, loaded, inflight, startResult, histVars>>
    /\ UNCHANGED otherVars

\* start() without the test of lines 49-52: it goes on to the lock whether
\* the instance is running or not.
StartCall_Unguarded(p) ==
    /\ alive[p] /\ pc[p] = "idle"
    /\ handlers[p] < MaxStarts
    /\ PassBudgetLeft
    /\ IF LockProbe(lockFile) = "held"
       THEN /\ startResult' = [startResult EXCEPT ![p] = "alreadyRunning"]
            /\ UNCHANGED <<pc, probe>>
       ELSE /\ startResult' = [startResult EXCEPT ![p] = "pending"]
            /\ probe' = [probe EXCEPT ![p] = LockProbe(lockFile)]
            /\ pc' = [pc EXCEPT ![p] =
                        IF LockProbe(lockFile) = "free" THEN "createLock" ELSE "removeLock"]
    /\ UNCHANGED <<now, loaded, fileVars, alive, enabled, isRunning, intervalHandle,
                   shutdownRequested, handlers, timers, inflight, histVars>>
    /\ UNCHANGED otherVars

\* start(), lines 49-60: the already-running guard and the lock check.
StartCall(p) ==
    /\ alive[p] /\ pc[p] = "idle"
    /\ handlers[p] < MaxStarts
    /\ PassBudgetLeft
    /\ IF isRunning[p]
       THEN /\ startResult' = [startResult EXCEPT ![p] = "noop"]
            /\ UNCHANGED <<pc, probe>>
       ELSE IF LockProbe(lockFile) = "held"
       THEN /\ startResult' = [startResult EXCEPT ![p] = "alreadyRunning"]
            /\ UNCHANGED <<pc, probe>>
       ELSE /\ startResult' = [startResult EXCEPT ![p] = "pending"]
            /\ probe' = [probe EXCEPT ![p] = LockProbe(lockFile)]
            /\ pc' = [pc EXCEPT ![p] =
                        IF LockProbe(lockFile) = "free" THEN "createLock" ELSE "removeLock"]
    /\ UNCHANGED <<now, loaded, fileVars, alive, enabled, isRunning, intervalHandle,
                   shutdownRequested, handlers, timers, inflight, histVars>>
    /\ UNCHANGED otherVars

\* isLocked(), lines 206-215: removeLock() on a stale or invalid lock file.
StartRemoveLock(p) ==
    /\ alive[p] /\ pc[p] = "removeLock"
    /\ lockFile' = RemoveLock(lockFile)
    /\ pc' = [pc EXCEPT ![p] = "createLock"]
    /\ UNCHANGED <<now, loaded, stateFile, alive, enabled, isRunning, intervalHandle,
                   shutdownRequested, handlers, timers, probe, inflight, startResult,
                   histVars>>
    /\ UNCHANGED otherVars

\* start() with performSync() not looking at shutdownRequested (line 113)
StartCreateLock_RunsAfterStop(p) ==
    /\ alive[p] /\ pc[p] = "createLock"
    /\ lockFile' = LockAfterCreate(lockFile, p, lockWritable)
    /\ handlers' = [handlers EXCEPT ![p] = @ + 1]
    /\ isRunning' = [isRunning EXCEPT ![p] = TRUE]
    /\ pc' = [pc EXCEPT ![p] = "idle"]
    /\ probe' = [probe EXCEPT ![p] = "none"]
    /\ inflight' = [inflight EXCEPT ![p] = @ \cup {NewPass("start")}]
    /\ calls' = [calls EXCEPT ![p] = @ + 1]
    /\ UNCHANGED startResult
    /\ UNCHANGED <<now, loaded, stateFile, alive, enabled, intervalHandle, shutdownRequested,
                   timers, completed, lastPass, passesDone, lastDone>>
    /\ UNCHANGED otherVars

\* start(), lines 62-83 up to the first suspension: createLock(),
\* setupSignalHandlers(), isRunning = true and the call of performSync(), which
\* either returns at once (shutdown requested) or invokes the executor.
StartCreateLock(p) ==
    /\ alive[p] /\ pc[p] = "createLock"
    /\ lockFile' = LockAfterCreate(lockFile, p, lockWritable)
    /\ handlers' = [handlers EXCEPT ![p] = @ + 1]
    /\ isRunning' = [isRunning EXCEPT ![p] = TRUE]
    /\ pc' = [pc EXCEPT ![p] = "idle"]
    /\ probe' = [probe EXCEPT ![p] = "none"]
    /\ IF shutdownRequested[p]
       THEN \* performSync() returns at line 114; scheduleNextSync() at line 155
            /\ startResult' = [startResult EXCEPT ![p] = "resolved"]
            /\ UNCHANGED <<inflight, calls>>
       ELSE /\ inflight' = [inflight EXCEPT ![p] = @ \cup {NewPass("start")}]
            /\ calls' = [calls EXCEPT ![p] = @ + 1]
            /\ UNCHANGED startResult
    /\ UNCHANGED <<now, loaded, stateFile, alive, enabled, intervalHandle, shutdownRequested,
                   timers, completed, lastPass, passesDone, lastDone>>
    /\ UNCHANGED otherVars

\* performSync(), lines 121-134 and 137-143: the executor settles with outcome
\* o; the status is loaded from the state file and updated in memory.  When
\* loadStatus() returns a value that is no object, the assignment of line 125
\* throws a TypeError, the catch branch loads the same value and line 141
\* throws again: performSync() rejects, nothing is saved, and its caller
\* (start() at line 75, the timer callback at line 161) rejects with it.
ExecDone(p, f, o) ==
    /\ alive[p] /\ pc[p] = "idle"
    /\ f \in inflight[p] /\ f.phase = "exec"
    /\ IF LoadStatus(stateFile).kind = "status"
       THEN /\ loaded' = [loaded EXCEPT ![p] = PassStatus(stateFile, f.ts, now, o)]
            /\ inflight' = [inflight EXCEPT ![p] =
                              (@ \ {f}) \cup {[f EXCEPT !.phase = "save", !.end = Some(now)]}]
            /\ pc' = [pc EXCEPT ![p] = "saveStatus"]
            /\ UNCHANGED startResult
       ELSE /\ inflight' = [inflight EXCEPT ![p] = @ \ {f}]
            /\ startResult' = [startResult EXCEPT ![p] =
                                  IF f.origin = "start" THEN "rejected" ELSE @]
            /\ UNCHANGED <<loaded, pc>>
    /\ UNCHANGED <<now, fileVars, alive, enabled, isRunning, intervalHandle,
                   shutdownRequested, handlers, timers, probe, histVars>>
    /\ UNCHANGED otherVars

\* performSync(), lines 136 and 144-147: saveStatus() writes the updated status
\* over whatever the state file holds by now and the pass returns; its caller
\* resumes in the same turn of the event loop: start() at lines 77-82, the
\* timer callback at line 162.
PassSave(p, f) ==
    /\ alive[p] /\ pc[p] = "saveStatus"
    /\ f \in inflight[p] /\ f.phase = "save"
    /\ stateFile' = SaveStatus(loaded[p])
    /\ loaded' = [loaded EXCEPT ![p] = NoFile]
    /\ inflight' = [inflight EXCEPT ![p] = @ \ {f}]
    /\ pc' = [pc EXCEPT ![p] = "idle"]
    /\ completed' = [completed EXCEPT ![p] = @ + 1]
    /\ lastPass' = [lastPass EXCEPT ![p] = {[ts |-> f.ts, end |-> e] : e \in f.end}]
    /\ passesDone' = passesDone + 1
    /\ lastDone' = {[ts |-> f.ts, end |-> e] : e \in f.end}
    /\ IF f.origin = "start"
       THEN /\ startResult' = [startResult EXCEPT ![p] = "resolved"]
            /\ IF enabled THEN ScheduleNextSync(p)
                          ELSE UNCHANGED <<timers, intervalHandle>>
       ELSE /\ ScheduleNextSync(p)
            /\ UNCHANGED startResult
    /\ UNCHANGED <<now, lockFile, alive, enabled, isRunning, shutdownRequested,
                   handlers, probe, calls>>
    /\ UNCHANGED otherVars

\* A fixed-rate timer: the callback arms the next timer before it runs the pass.
TimerFire_FixedRate(p, t) ==
    /\ alive[p] /\ pc[p] = "idle"
    /\ t \in timers[p] /\ now >= t
    /\ PassBudgetLeft
    /\ timers' = [timers EXCEPT ![p] = (@ \ {t}) \cup {ScheduleDeadline(now)}]
    /\ IF shutdownRequested[p]
       THEN UNCHANGED <<inflight, calls>>
       ELSE /\ inflight' = [inflight EXCEPT ![p] = @ \cup {NewPass("timer")}]
            /\ calls' = [calls EXCEPT ![p] = @ + 1]
    /\ UNCHANGED <<now, loaded, fileVars, alive, enabled, isRunning, intervalHandle,
                   shutdownRequested, handlers, pc, probe, startResult,
                   completed, lastPass, passesDone, lastDone>>
    /\ UNCHANGED otherVars

\* The setTimeout callback of scheduleNextSync(), lines 160-163, fires.
TimerFire(p, t) ==
    /\ alive[p] /\ pc[p] = "idle"
    /\ t \in timers[p] /\ now >= t
    /\ PassBudgetLeft
    /\ timers' = [timers EXCEPT ![p] = @ \ {t}]
    /\ IF shutdownRequested[p]
       THEN UNCHANGED <<inflight, calls>>
       ELSE /\ inflight' = [inflight EXCEPT ![p] = @ \cup {NewPass("timer")}]
            /\ calls' = [calls EXCEPT ![p] = @ + 1]
    /\ UNCHANGED <<now, loaded, fileVars, alive, enabled, isRunning, intervalHandle,
                   shutdownRequested, handlers, pc, probe, startResult,
                   completed, lastPass, passesDone, lastDone>>
    /\ UNCHANGED otherVars

\* stop() without the clearTimeout of lines 97-100
StopEffect_KeepsTimer(p) ==
    IF ~isRunning[p]
    THEN UNCHANGED <<shutdownRequested, timers, intervalHandle, lockFile, isRunning>>
    ELSE /\ shutdownRequested' = [shutdownRequested EXCEPT ![p] = TRUE]
         /\ lockFile' = RemoveLock(lockFile)
         /\ isRunning' = [isRunning EXCEPT ![p] = FALSE]
         /\ UNCHANGED <<timers, intervalHandle>>

\* stop(), lines 88-107, as the state it leaves.
StopEffect(p) ==
    IF ~isRunning[p]
    THEN UNCHANGED <<shutdownRequested, timers, intervalHandle, lockFile, isRunning>>
    ELSE /\ shutdownRequested' = [shutdownRequested EXCEPT ![p] = TRUE]
         /\ timers' = [timers EXCEPT ![p] = @ \ intervalHandle[p]]
         /\ intervalHandle' = [intervalHandle EXCEPT ![p] = NULL]
         /\ lockFile' = RemoveLock(lockFile)
         /\ isRunning' = [isRunning EXCEPT ![p] = FALSE]

\* stop() called by the program.
Stop(p) ==
    /\ alive[p] /\ pc[p] = "idle"
    /\ StopEffect(p)
    /\ UNCHANGED <<now, loaded, stateFile, alive, enabled, handlers, pc, probe, inflight,
                   startResult, histVars>>
    /\ UNCHANGED otherVars

\* The process is gone: nothing of its memory remains.
Gone(p) ==
    /\ alive' = [alive EXCEPT ![p] = FALSE]
    /\ isRunning' = [isRunning EXCEPT ![p] = FALSE]
    /\ intervalHandle' = [intervalHandle EXCEPT ![p] = NULL]
    /\ shutdownRequested' = [shutdownRequested EXCEPT ![p] = FALSE]
    /\ handlers' = [handlers EXCEPT ![p] = 0]
    /\ timers' = [timers EXCEPT ![p] = {}]
    /\ pc' = [pc EXCEPT ![p] = "idle"]
    /\ probe' = [probe EXCEPT ![p] = "none"]
    /\ inflight' = [inflight EXCEPT ![p] = {}]
    /\ loaded' = [loaded EXCEPT ![p] = NoFile]
    /\ startResult' = [startResult EXCEPT ![p] = "none"]
    /\ calls' = [calls EXCEPT ![p] = 0]
    /\ completed' = [completed EXCEPT ![p] = 0]
    /\ lastPass' = [lastPass EXCEPT ![p] = NULL]

\* The process is killed (SIGKILL, power loss, or a termination signal before
\* any handler is registered): no handler runs, the files stay as they are.
Crash(p) ==
    /\ alive[p]
    /\ Gone(p)
    /\ UNCHANGED <<now, fileVars, enabled, passesDone, lastDone>>
    /\ UNCHANGED otherVars

\* A signal handler without the guard of line 180: stop() and process.exit(0)
\* on every delivery.
Signal_Unguarded(p) ==
    /\ alive[p] /\ pc[p] = "idle"
    /\ handlers[p] > 0
    /\ lockFile' = IF isRunning[p] THEN RemoveLock(lockFile) ELSE lockFile
    /\ Gone(p)
    /\ UNCHANGED <<now, stateFile, enabled, passesDone, lastDone>>
    /\ UNCHANGED otherVars

\* SIGINT or SIGTERM with the handler of setupSignalHandlers(), lines 179-184,
\* registered: stop() and process.exit(0) unless shutdown was requested before.
Signal(p) ==
    /\ alive[p] /\ pc[p] = "idle"
    /\ handlers[p] > 0
    /\ IF shutdownRequested[p]
       THEN UNCHANGED <<fileVars, alive, isRunning, intervalHandle, shutdownRequested,
                        handlers, timers, pc, probe, loaded, inflight, startResult, calls,
                        completed, lastPass>>
       ELSE /\ lockFile' = IF isRunning[p] THEN RemoveLock(lockFile) ELSE lockFile
            /\ Gone(p)
            /\ UNCHANGED stateFile
    /\ UNCHANGED <<now, enabled, passesDone, lastDone>>
    /\ UNCHANGED otherVars

Next ==
    \/ Tick
    \/ \E p \in Procs : StartCall(p)
    \/ \E p \in Procs : StartRemoveLock(p)
    \/ \E p \in Procs : StartCreateLock(p)
    \/ \E p \in Procs : \E f \in inflight[p] : \E o \in Outcomes : ExecDone(p, f, o)
    \/ \E p \in Procs : \E f \in inflight[p] : PassSave(p, f)
    \/ \E p \in Procs : \E t \in timers[p] : TimerFire(p, t)
    \/ \E p \in Procs : Stop(p)
    \/ \E p \in Procs : Crash(p)
    \/ \E p \in Procs : Signal(p)

Spec == Init /\ [][Next]_vars

\* ------------------------------------------ the daemon on a faulty file system

\* The process dies inside the writeFileSync of saveStatus(), line 283, which
\* truncates the file and then writes the new text: the file is left empty or
\* holding a prefix of the text, neither of which parses.
TornSave(p) ==
    /\ alive[p] /\ pc[p] = "saveStatus"
    /\ stateFile' = CorruptFile
    /\ Gone(p)
    /\ UNCHANGED <<now, lockFile, enabled, passesDone, lastDone>>
    /\ UNCHANGED otherVars

\* The daemon started on files it did not write itself and on a state
\* directory that may not be writable.
InitFaults ==
    /\ now = 0
    /\ lockFile \in {NoFile, CorruptFile, CreateLock(DeadPid)}
    /\ stateFile \in {NoFile, CorruptFile, NullFile}
    /\ alive = [p \in Procs |-> TRUE]
    /\ enabled \in BOOLEAN
    /\ isRunning = [p \in Procs |-> FALSE]
    /\ intervalHandle = [p \in Procs |-> NULL]
    /\ shutdownRequested = [p \in Procs |-> FALSE]
    /\ handlers = [p \in Procs |-> 0]
    /\ timers = [p \in Procs |-> {}]
    /\ pc = [p \in Procs |-> "idle"]
    /\ probe = [p \in Procs |-> "none"]
    /\ inflight = [p \in Procs |-> {}]
    /\ loaded = [p \in Procs |-> NoFile]
    /\ startResult = [p \in Procs |-> "none"]
    /\ calls = [p \in Procs |-> 0]
    /\ completed = [p \in Procs |-> 0]
    /\ lastPass = [p \in Procs |-> NULL]
    /\ passesDone = 0
    /\ lastDone = NULL
    /\ lockWritable \in BOOLEAN
    /\ DiscoveryAtRest
    /\ answer = NoAnswer

NextFaults ==
    \/ Next
    \/ \E p \in Procs : TornSave(p)

SpecFaults == InitFaults /\ [][NextFaults]_vars

\* ------------------------------------- the daemon on a damaged lock file

\* Lock files that are no lock record: text that does not parse, the JSON
\* text null, a record without a pid, a record whose pid is no process
\* identifier
InvalidLocks == {CorruptFile, NullFile, NoPidLock, GroupLock}

InitLocks ==
    /\ now = 0
    /\ lockFile \in InvalidLocks
    /\ stateFile = NoFile
    /\ alive = [p \in Procs |-> TRUE]
    /\ enabled \in BOOLEAN
    /\ isRunning = [p \in Procs |-> FALSE]
    /\ intervalHandle = [p \in Procs |-> NULL]
    /\ shutdownRequested = [p \in Procs |-> FALSE]
    /\ handlers = [p \in Procs |-> 0]
    /\ timers = [p \in Procs |-> {}]
    /\ pc = [p \in Procs |-> "idle"]
    /\ probe = [p \in Procs |-> "none"]
    /\ inflight = [p \in Procs |-> {}]
    /\ loaded = [p \in Procs |-> NoFile]
    /\ startResult = [p \in Procs |-> "none"]
    /\ calls = [p \in Procs |-> 0]
    /\ completed = [p \in Procs |-> 0]
    /\ lastPass = [p \in Procs |-> NULL]
    /\ passesDone = 0
    /\ lastDone = NULL
    /\ lockWritable = TRUE
    /\ DiscoveryAtRest
    /\ answer = NoAnswer

SpecLocks == InitLocks /\ [][Next]_vars

\* ------------------------------------------------- the static queries

\* A static isRunning() that cleans up like isLocked(): it removes a lock file
\* that is stale or does not parse
IsRunningCall_RemovesStale ==
    /\ answer' = [query |-> "isRunning", value |-> IsRunningQuery(lockFile)]
    /\ lockFile' = IF IsRunningQuery(lockFile) THEN lockFile ELSE RemoveLock(lockFile)
    /\ UNCHANGED <<now, stateFile, alive, enabled, isRunning, intervalHandle,
                   shutdownRequested, handlers, timers, pc, probe, inflight, loaded,
                   startResult, histVars, lockWritable, discVars>>

\* SecretsSyncDaemon.isRunning() called by any program (the CLI, a test)
IsRunningCall ==
    /\ answer' = [query |-> "isRunning", value |-> IsRunningQuery(lockFile)]
    /\ UNCHANGED <<now, fileVars, alive, enabled, isRunning, intervalHandle,
                   shutdownRequested, handlers, timers, pc, probe, inflight, loaded,
                   startResult, histVars, lockWritable, discVars>>

\* SecretsSyncDaemon.getStatus() called by any program
GetStatusCall ==
    /\ answer' = [query |-> "getStatus", value |-> GetStatus(stateFile)]
    /\ UNCHANGED <<now, fileVars, alive, enabled, isRunning, intervalHandle,
                   shutdownRequested, handlers, timers, pc, probe, inflight, loaded,
                   startResult, histVars, lockWritable, discVars>>

\* The daemons and the programs that query them, within one hour of the
\* clock: no timer comes due.
NextQueries ==
    \/ \E p \in Procs : StartCall(p)
    \/ \E p \in Procs : StartRemoveLock(p)
    \/ \E p \in Procs : StartCreateLock(p)
    \/ \E p \in Procs : \E f \in inflight[p] : \E o \in Outcomes : ExecDone(p, f, o)
    \/ \E p \in Procs : \E f \in inflight[p] : PassSave(p, f)
    \/ \E p \in Procs : Stop(p)
    \/ \E p \in Procs : Crash(p)
    \/ \E p \in Procs : Signal(p)
    \/ \E p \in Procs : TornSave(p)
    \/ IsRunningCall
    \/ GetStatusCall

SpecQueries == InitFaults /\ [][NextQueries]_vars

\* ------------------------------------------------------ repository discovery

\* A cache entry discoverRepositories() can answer from: it exists, is for
\* this organization, is younger than the TTL and lists repositories.
Usable(file, t) ==
    /\ GetCachedRepos(file, t, Org) # NULL
    /\ WellFormed(file.repositories)

\* discoverRepositories(forceRefresh), lines 101-110: the cache is consulted
\* unless forceRefresh, and a hit is filtered and returned without a request.
DiscoverCall(force) ==
    /\ discPc = "idle"
    /\ forceRefresh' = force
    /\ hadUsable' = Usable(cacheFile, now)
    /\ LET cached == GetCachedRepos(cacheFile, now, Org)
       IN  IF ~force /\ cached # NULL
           THEN /\ result' = FilterRepositories(cacheFile.repositories, config)
                /\ UNCHANGED <<discPc, page, repos>>
           ELSE /\ discPc' = "fetching"
                /\ page' = 1
                /\ repos' = <<>>
                /\ result' = NoResult
    /\ requests' = 0
    /\ UNCHANGED <<now, cacheFile, config, remote, cachedBy, daemonVars>>

\* Lines 158-164 with the filters applied before the list is cached
Finish_CachesFiltered(list, written) ==
    /\ cacheFile' = CacheRepos(cacheFile, Filtered(list, config), now, Org, written)
    /\ cachedBy' = IF written THEN Some(config) ELSE cachedBy
    /\ result' = FilterRepositories(list, config)
    /\ discPc' = "idle"
    /\ page' = 0
    /\ repos' = <<>>

\* Lines 158-164: the fetched list is cached (a failed write is swallowed),
\* then filtered and returned.
Finish(list, written) ==
    /\ cacheFile' = CacheRepos(cacheFile, list, now, Org, written)
    /\ cachedBy' = IF written THEN Some(config) ELSE cachedBy
    /\ result' = FilterRepositories(list, config)
    /\ discPc' = "idle"
    /\ page' = 0
    /\ repos' = <<>>

\* The loop of lines 118-156 without the test of lines 148-150: only an empty
\* page ends it.
FetchPage_StopsOnlyOnEmpty(written) ==
    /\ discPc = "fetching"
    /\ LET response == PageOf(remote, page)
       IN  IF Len(response) = 0
           THEN Finish(repos, written)
           ELSE /\ repos' = repos \o response
                /\ page' = page + 1
                /\ UNCHANGED <<cacheFile, cachedBy, result, discPc>>
    /\ requests' = requests + 1
    /\ UNCHANGED <<now, config, remote, forceRefresh, hadUsable, daemonVars>>

\* One turn of the loop of lines 118-156 with a successful request: an empty
\* page or a short page ends the loop, a full page asks for the next one.
FetchPage(written) ==
    /\ discPc = "fetching"
    /\ LET response == PageOf(remote, page)
       IN  IF Len(response) = 0
           THEN Finish(repos, written)
           ELSE IF Len(response) < PerPage
           THEN Finish(repos \o response, written)
           ELSE /\ repos' = repos \o response
                /\ page' = page + 1
                /\ UNCHANGED <<cacheFile, cachedBy, result, discPc>>
    /\ requests' = requests + 1
    /\ UNCHANGED <<now, config, remote, forceRefresh, hadUsable, daemonVars>>

\* The request fails, lines 165-174: status 403 becomes the rate-limit error,
\* anything else is thrown again; the cache is neither read nor written.
FetchErrors == {SurfaceError(e) : e \in RequestErrors}

\* The catch of lines 165-174 saving the pages fetched so far
FetchFail_CachesPartial(e) ==
    /\ discPc = "fetching"
    /\ cacheFile' = CacheRepos(cacheFile, repos, now, Org, TRUE)
    /\ result' = Thrown(SurfaceError(e))
    /\ discPc' = "idle"
    /\ page' = 0
    /\ repos' = <<>>
    /\ requests' = requests + 1
    /\ UNCHANGED <<now, config, remote, forceRefresh, hadUsable, cachedBy, daemonVars>>

FetchFail(e) ==
    /\ discPc = "fetching"
    /\ result' = Thrown(SurfaceError(e))
    /\ discPc' = "idle"
    /\ page' = 0
    /\ repos' = <<>>
    /\ requests' = requests + 1
    /\ UNCHANGED <<now, cacheFile, config, remote, forceRefresh, hadUsable, cachedBy,
                   daemonVars>>

\* Repositories are created and deleted on the GitHub side
RemoteChange(list) ==
    /\ remote # list
    /\ remote' = list
    /\ UNCHANGED <<now, cacheFile, config, discPc, forceRefresh, page, repos, result,
                   hadUsable, cachedBy, requests, daemonVars>>

\* The constructor, lines 42-45: the program makes a new discovery with another
\* configuration of the filters; the cache file is the same one.
Reconfigure(cfg) ==
    /\ discPc = "idle"
    /\ config # cfg
    /\ config' = cfg
    /\ UNCHANGED <<now, cacheFile, remote, discPc, forceRefresh, page, repos, result,
                   hadUsable, cachedBy, requests, daemonVars>>

\* No daemon process: its variables as Init leaves them, on an empty state
\* directory
DaemonAtRest ==
    /\ lockFile = NoFile
    /\ stateFile = NoFile
    /\ alive = [p \in Procs |-> TRUE]
    /\ enabled = FALSE
    /\ isRunning = [p \in Procs |-> FALSE]
    /\ intervalHandle = [p \in Procs |-> NULL]
    /\ shutdownRequested = [p \in Procs |-> FALSE]
    /\ handlers = [p \in Procs |-> 0]
    /\ timers = [p \in Procs |-> {}]
    /\ pc = [p \in Procs |-> "idle"]
    /\ probe = [p \in Procs |-> "none"]
    /\ inflight = [p \in Procs |-> {}]
    /\ loaded = [p \in Procs |-> NoFile]
    /\ startResult = [p \in Procs |-> "none"]
    /\ calls = [p \in Procs |-> 0]
    /\ completed = [p \in Procs |-> 0]
    /\ lastPass = [p \in Procs |-> NULL]
    /\ passesDone = 0
    /\ lastDone = NULL
    /\ lockWritable = TRUE
    /\ answer = NoAnswer

\* What CACHE_FILE can hold when the discovery is constructed
InitCaches ==
    {NoFile, CorruptFile, NullFile,
     CacheData(<<>>, 0, Org), CacheData(<<RepoA, RepoC>>, 0, Org),
     CacheData(<<RepoA>>, 0, OtherOrg), CacheData(<<NullRepo>>, 0, Org)}

InitDiscovery ==
    /\ now = 0
    /\ DaemonAtRest
    /\ cacheFile \in InitCaches
    /\ config \in Configs
    /\ remote \in RemoteLists
    /\ discPc = "idle"
    /\ forceRefresh = FALSE
    /\ page = 0
    /\ repos = <<>>
    /\ result = NoResult
    /\ hadUsable = FALSE
    /\ cachedBy = NULL
    /\ requests = 0

NextDiscovery ==
    \/ Tick
    \/ \E force \in BOOLEAN : DiscoverCall(force)
    \/ \E written \in BOOLEAN : FetchPage(written)
    \/ \E e \in RequestErrors : FetchFail(e)
    \/ \E cfg \in Configs : Reconfigure(cfg)
    \/ \E list \in RemoteLists : RemoteChange(list)

SpecDiscovery == InitDiscovery /\ [][NextDiscovery]_vars

\* The process is killed inside the writeFileSync of cacheRepos(), line 91,
\* after the file was truncated and before all of the new text is written:
\* the file holds a prefix of the JSON text, and the call is gone with the
\* process.
TornCacheWrite ==
    /\ discPc = "fetching"
    /\ Len(PageOf(remote, page)) < PerPage
    /\ cacheFile' = CorruptFile
    /\ discPc' = "idle"
    /\ page' = 0
    /\ repos' = <<>>
    /\ result' = NoResult
    /\ requests' = requests + 1
    /\ UNCHANGED <<now, config, remote, forceRefresh, hadUsable, cachedBy, daemonVars>>

NextDiscoveryFaults ==
    \/ NextDiscovery
    \/ TornCacheWrite

SpecDiscoveryFaults == InitDiscovery /\ [][NextDiscoveryFaults]_vars

\* Every request of a call in progress settles: the awaited listForOrg promise
\* resolves or rejects.
RequestSettles ==
    \/ \E written \in BOOLEAN : FetchPage(written)
    \/ \E e \in RequestErrors : FetchFail(e)

SpecDiscoveryFair == SpecDiscovery /\ WF_vars(RequestSettles)

\* ----------------------------------------------------------------- claims

\* The lock file holds the record of a live process other than q.
HeldByOther(q) ==
    /\ lockFile.kind = "lock"
    /\ lockFile.pid # q
    /\ IsLive(lockFile.pid)

\* C1: while the lock file holds the record of a live process, a start() of
\* another instance (one that is not itself running) fails with "already
\* running": in that step it invokes no executor, does not become running,
\* arms no timer, does not go on to remove or write the lock, and the lock
\* record stays as it is.
C1_LiveLockRejectsStart ==
    [][\A q \in Procs :
         (~isRunning[q] /\ HeldByOther(q) /\ StartCall(q)) =>
             /\ startResult'[q] = "alreadyRunning"
             /\ pc'[q] = "idle"
             /\ ~isRunning'[q]
             /\ calls'[q] = calls[q]
             /\ inflight'[q] = inflight[q]
             /\ timers'[q] = timers[q]
             /\ lockFile' = lockFile]_vars

\* C1 witness: a start() was rejected and the live holder's record is in place.
C1_Witness ==
    \E q \in Procs :
        /\ startResult[q] = "alreadyRunning"
        /\ HeldByOther(q)
        /\ ~isRunning[q] /\ calls[q] = 0 /\ timers[q] = {} /\ pc[q] = "idle"

\* C2: at most one live daemon is running at any time, and two daemons never
\* have a pass in flight at the same time.
C2_NoDoubleRunning ==
    /\ Cardinality({p \in Procs : alive[p] /\ isRunning[p]}) <= 1
    /\ \A p, q \in Procs : p # q => (inflight[p] = {} \/ inflight[q] = {})

\* C3: a start() that finds the record of a process that is not live goes on
\* to delete the record, then writes a record with its own process identifier,
\* is running, and has invoked the executor for the initial pass.
C3_StaleLockReclaimed ==
    [][\A p \in Procs :
         /\ (~isRunning[p] /\ LockProbe(lockFile) = "stale" /\ StartCall(p)) =>
                pc'[p] = "removeLock"
         /\ (probe[p] = "stale" /\ StartRemoveLock(p)) =>
                (lockFile' = NoFile /\ pc'[p] = "createLock")
         /\ (probe[p] = "stale" /\ StartCreateLock(p)) =>
                /\ lockFile' = CreateLock(p)
                /\ isRunning'[p]
                /\ \E f \in inflight'[p] :
                      f.origin = "start" /\ f.phase = "exec" /\ f.ts = now]_vars

\* C4: stop() on a running daemon leaves the lock file absent, no timer of the
\* daemon pending and the daemon not running; stop() on a daemon that is not
\* running changes nothing; a daemon that is not running has no pending timer;
\* and a start() of another instance that finds the lock file absent goes on to
\* write its own record.
C4_StopIdempotent ==
    [][\A p \in Procs :
         /\ (isRunning[p] /\ Stop(p)) =>
                /\ lockFile' = NoFile
                /\ timers'[p] = {} /\ intervalHandle'[p] = NULL
                /\ ~isRunning'[p]
         /\ (~isRunning[p] /\ Stop(p)) => UNCHANGED vars
         /\ (~isRunning[p] => timers[p] = {})
         /\ \A q \in Procs \ {p} :
              (~isRunning[q] /\ ~isRunning[p] /\ lockFile = NoFile /\ StartCall(q)) =>
                  pc'[q] = "createLock"
         /\ StartCreateLock(p) => lockFile' = CreateLock(p)]_vars

\* C4 witness: p completed a pass and was stopped; q has since acquired the lock.
C4_Witness ==
    \E p, q \in Procs :
        /\ p # q /\ alive[p]
        /\ shutdownRequested[p] /\ ~isRunning[p] /\ timers[p] = {} /\ completed[p] >= 1
        /\ lockFile.kind = "lock" /\ lockFile.pid = q /\ isRunning[q]

\* C5: a daemon has at most one pass in flight, and a pass that starts after
\* an earlier pass of the daemon (started at ts, executor duration d) starts at
\* ts + d + interval or later.
C5_NoOverlap ==
    \A p \in Procs :
        /\ Cardinality(inflight[p]) <= 1
        /\ \A f \in inflight[p] : \A lp \in lastPass[p] :
              LET d == lp.end - lp.ts IN
              f.ts >= lp.ts + d + IntervalHours

\* C5 witness: a second pass in flight after a pass whose executor took time.
C5_Witness ==
    \E p \in Procs : \E f \in ExecFlows(p) : \E lp \in lastPass[p] :
        /\ lp.end > lp.ts
        /\ f.ts = lp.end + IntervalHours

\* C6: the state file is absent until the first pass completes; from then on
\* its successCount + failureCount is the number of passes completed.
C6_CountersSumToPasses ==
    IF stateFile = NoFile
    THEN passesDone = 0
    ELSE stateFile.successCount + stateFile.failureCount = passesDone

\* C7: the state file always holds the lastSync (start time) and the nextSync
\* (finish time plus interval) of the latest completed pass; and while a timer
\* of a daemon is pending, every pass of that daemon has been saved and the
\* timer is due no earlier than the interval after the last save.
C7_SaveBeforeRearm ==
    /\ stateFile # NoFile =>
          \E ld \in lastDone :
              /\ stateFile.lastSync = Some(ld.ts)
              /\ stateFile.nextSync = Some(ld.end + IntervalHours)
    /\ \A p \in Procs : \A t \in timers[p] :
          /\ inflight[p] = {}
          /\ calls[p] = completed[p]
          /\ \E lp \in lastPass[p] :
                /\ t >= lp.end + IntervalHours
                /\ stateFile # NoFile

\* C7 witness: between the second and the third pass of a daemon, whose second
\* pass is the one on file.
C7_Witness ==
    \E p \in Procs : \E lp \in lastPass[p] :
        /\ timers[p] # {} /\ completed[p] = 2
        /\ stateFile # NoFile /\ stateFile.lastSync = Some(lp.ts)

\* C8: every start() that acquires the lock invokes the executor once, at once;
\* when that start() resolves its pass has completed, and a timer is pending
\* exactly if enabled is true (and no shutdown was requested meanwhile); with
\* enabled false a daemon never runs a second pass.
C8_StartRunsOnePass ==
    [][\A p \in Procs :
         /\ StartCreateLock(p) =>
                /\ calls'[p] = calls[p] + 1
                /\ \E f \in inflight'[p] \ inflight[p] :
                      f.origin = "start" /\ f.phase = "exec" /\ f.ts = now
         /\ (alive'[p] /\ startResult[p] = "pending" /\ startResult'[p] = "resolved") =>
                /\ completed'[p] >= 1
                /\ (enabled /\ ~shutdownRequested[p]) => timers'[p] # {}
                /\ ~enabled => timers'[p] = {}
         /\ ~enabled => calls[p] <= 1]_vars

\* C9: a pass whose executor has settled, with any outcome, goes on to save;
\* a pass leaves the daemon only in the step that saves the ledger, with
\* lastSync = the pass's start time and nextSync = the time the executor
\* finished plus the interval.
C9_EveryPassSaves ==
    [][\A p \in Procs : \A f \in inflight[p] :
         (alive'[p] /\ f \notin inflight'[p]) =>
             IF f.phase = "exec"
             THEN /\ [f EXCEPT !.phase = "save", !.end = Some(now)] \in inflight'[p]
                  /\ pc'[p] = "saveStatus"
                  /\ loaded'[p].kind = "status"
                  /\ loaded'[p].lastSync = Some(f.ts)
                  /\ loaded'[p].nextSync = Some(now + IntervalHours)
             ELSE /\ stateFile' = loaded[p]
                  /\ stateFile'.lastSync = Some(f.ts)
                  /\ stateFile'.nextSync = {e + IntervalHours : e \in f.end}
                  /\ f.end # NULL]_vars

\* C9 witness: a pass that took time and did not succeed has been saved and
\* has returned.
C9_Witness ==
    \E ld \in lastDone :
        /\ ld.end > ld.ts
        /\ passesDone = 1 /\ \A p \in Procs : inflight[p] = {}
        /\ stateFile # NoFile
        /\ stateFile.successCount = 0 /\ stateFile.failureCount = 1
        /\ stateFile.lastSync = Some(ld.ts)
        /\ stateFile.nextSync = Some(ld.end + IntervalHours)

\* C10: every pass invokes the executor once (invocations = completed passes +
\* passes in flight); an executor that returns success adds one to the
\* successCount the pass loaded and leaves failureCount, one that returns
\* failure or throws adds one to failureCount and leaves successCount; the
\* counters saved are the ones so computed.
C10_OutcomeCounted ==
    [][\A p \in Procs :
         /\ alive[p] => calls[p] = completed[p] + Cardinality(inflight[p])
         /\ \A f \in inflight[p] :
              /\ \A o \in Outcomes :
                   ExecDone(p, f, o) =>
                       /\ calls'[p] = calls[p] /\ completed'[p] = completed[p]
                       /\ o = "ok" =>
                             /\ loaded'[p].successCount =
                                    LoadStatus(stateFile).successCount + 1
                             /\ loaded'[p].failureCount =
                                    LoadStatus(stateFile).failureCount
                       /\ o # "ok" =>
                             /\ loaded'[p].failureCount =
                                    LoadStatus(stateFile).failureCount + 1
                             /\ loaded'[p].successCount =
                                    LoadStatus(stateFile).successCount
              /\ PassSave(p, f) =>
                   /\ completed'[p] = completed[p] + 1 /\ calls'[p] = calls[p]
                   /\ stateFile'.successCount = loaded[p].successCount
                   /\ stateFile'.failureCount = loaded[p].failureCount]_vars

\* C10 witness: a daemon has invoked the executor twice and the ledger counts
\* a success and a failure.
C10_Witness ==
    \E p \in Procs :
        /\ calls[p] >= 2 /\ completed[p] = 2
        /\ stateFile # NoFile
        /\ stateFile.successCount = 1 /\ stateFile.failureCount = 1

\* C11: a step that requests shutdown of a running daemon (stop(), or a
\* termination signal handled by the daemon) leaves no timer of the daemon
\* pending and leaves its passes in flight as they are; once shutdown is
\* requested the daemon invokes the executor no more; and a pass in flight on
\* a daemon whose shutdown is requested still goes on to its save.
C11_ShutdownSparesPassInFlight ==
    [][\A p \in Procs :
         /\ (isRunning[p] /\ ~shutdownRequested[p] /\ (Stop(p) \/ Signal(p))) =>
                /\ timers'[p] = {}
                /\ inflight'[p] = inflight[p]
         /\ shutdownRequested[p] => calls'[p] <= calls[p]
         /\ \A f \in inflight[p] :
              (shutdownRequested[p] /\ alive'[p] /\ f.phase = "exec"
                                    /\ f \notin inflight'[p]) =>
                  [f EXCEPT !.phase = "save", !.end = Some(now)] \in inflight'[p]]_vars

\* C12: a termination signal delivered to a daemon whose shutdown has been
\* requested (by stop() or by an earlier signal) changes nothing: no field of
\* the daemon, no timer, neither file.
C12_SignalAfterShutdownIsNoOp ==
    [][\A p \in Procs : (shutdownRequested[p] /\ Signal(p)) => UNCHANGED vars]_vars

\* C12 witness: p was stopped and stays alive with its handlers registered, so
\* that a signal can be delivered to it, while the lock file holds the record
\* of another daemon that is running.
C12_Witness ==
    \E p, q \in Procs :
        /\ p # q /\ alive[p] /\ pc[p] = "idle"
        /\ shutdownRequested[p] /\ handlers[p] > 0
        /\ lockFile = CreateLock(q) /\ isRunning[q] /\ alive[q]

\* C13: the scheduling loop of a daemon never stops by itself: a live daemon
\* with enabled true and no shutdown requested that has begun its initial pass
\* has a pass in flight or a timer pending for the next one, whatever the
\* outcomes of its passes and whatever the state file held.
C13_LoopContinues ==
    \A p \in Procs :
        (alive[p] /\ enabled /\ ~shutdownRequested[p] /\ isRunning[p]
                  /\ pc[p] = "idle") =>
            (inflight[p] # {} \/ timers[p] # {})

\* C14: when the executor of a pass settles and the state file is absent,
\* unparsable or parses to something that is no ledger, the pass loads the
\* zero-valued default, counts itself on it and goes on to save; what it
\* saves is a well-formed ledger.
C14_MalformedLedgerRecovered ==
    [][\A p \in Procs : \A f \in inflight[p] :
         /\ (f.phase = "exec" /\ stateFile.kind # "status"
                              /\ alive'[p] /\ f \notin inflight'[p]) =>
                /\ pc'[p] = "saveStatus"
                /\ loaded'[p].kind = "status"
                /\ loaded'[p].successCount + loaded'[p].failureCount = 1
                /\ loaded'[p].lastSync = Some(f.ts)
         /\ PassSave(p, f) => stateFile'.kind = "status"]_vars

\* C15: while the lock record cannot be written, no start() gets a daemon into
\* the running state, no daemon invokes the executor and none arms a timer.
C15_LockWriteFailureIsFatal ==
    ~lockWritable =>
        \A p \in Procs : ~isRunning[p] /\ inflight[p] = {} /\ timers[p] = {}

\* C16: when a process dies, at whatever point of a pass, a state file that
\* held the record of a completed pass holds that same record afterwards.
C16_CrashKeepsLastRecord ==
    [][\A p \in Procs :
         (alive[p] /\ ~alive'[p] /\ stateFile.kind = "status") =>
             stateFile' = stateFile]_vars

\* C17: no step takes a persisted counter down: when the state file holds a
\* ledger before and after a step, its successCount and its failureCount are
\* each at least what they were.
C17_CountersNeverDecrease ==
    [][(stateFile.kind = "status" /\ stateFile'.kind = "status") =>
           /\ stateFile'.successCount >= stateFile.successCount
           /\ stateFile'.failureCount >= stateFile.failureCount]_vars

\* C18: the cache answers exactly when it holds an entry for this organization
\* that is younger than the TTL: then getCachedRepos() returns the cached
\* list, a call without forceRefresh is answered from it without a request,
\* and otherwise such a call goes to the API.
C18_CacheHitIffFreshSameOrg ==
    [][LET fresh == /\ cacheFile.kind = "cache"
                    /\ cacheFile.organization = Org
                    /\ now - cacheFile.lastFetch < CACHE_TTL_HOURS
       IN  /\ fresh => GetCachedRepos(cacheFile, now, Org) = Some(cacheFile.repositories)
           /\ ~fresh => GetCachedRepos(cacheFile, now, Org) = NULL
           /\ (fresh /\ DiscoverCall(FALSE)) =>
                  /\ discPc' = "idle"
                  /\ result' = FilterRepositories(cacheFile.repositories, config)
           /\ (~fresh /\ DiscoverCall(FALSE)) =>
                  /\ discPc' = "fetching"
                  /\ result' = NoResult]_vars

\* An entry for this organization exactly one TTL old was passed over and the
\* call went to the API.
C18_Witness ==
    /\ cacheFile.kind = "cache"
    /\ cacheFile.organization = Org
    /\ now - cacheFile.lastFetch = CACHE_TTL_HOURS
    /\ discPc = "fetching"
    /\ ~forceRefresh
    /\ page = 1

\* C19: a discovery call made while a usable cache entry exists returns a
\* list, whatever the API does.
C19_UsableCacheNeverFails ==
    (hadUsable /\ discPc = "idle") => result.kind = "ok"

\* C20: the only errors a discovery call raises are those of the fetch; a
\* cache that cannot be read or written never is one.
C20_CacheTroubleIsAMiss ==
    result.kind = "error" => result.error \in FetchErrors

\* C21: a cache write stores the whole list the fetch accumulated, unfiltered;
\* a call answered from the cache makes no request, leaves the cache as it
\* is and returns the cached list filtered by the configuration in force at
\* the call, whichever configuration wrote the entry.
C21_CacheStoresUnfilteredList ==
    [][/\ (discPc = "fetching" /\ cacheFile' # cacheFile) =>
              /\ cacheFile'.kind = "cache"
              /\ cacheFile'.repositories = repos \o PageOf(remote, page)
              /\ result' = Returned(SelectSeq(cacheFile'.repositories,
                                              LAMBDA r : Keeps(r, config)))
       /\ (Usable(cacheFile, now) /\ DiscoverCall(FALSE)) =>
              /\ discPc' = "idle" /\ page' = page
              /\ cacheFile' = cacheFile
              /\ result' = Returned(SelectSeq(cacheFile.repositories,
                                              LAMBDA r : Keeps(r, config)))]_vars

\* A call was answered from an entry written under another configuration, and
\* the answer is not what that configuration would have given.
C21_Witness ==
    /\ discPc = "idle" /\ hadUsable /\ ~forceRefresh
    /\ Usable(cacheFile, now)
    /\ cachedBy # NULL /\ cachedBy # Some(config)
    /\ result = FilterRepositories(cacheFile.repositories, config)
    /\ \A c \in cachedBy : result # FilterRepositories(cacheFile.repositories, c)

C23_NetworkFailureRetried ==
    [][FetchFail(NetworkError) => discPc' = "fetching"]_vars

\* C28: while a fetch is in progress every page before the current one was
\* full; a successful request that returns a full page appends it and asks
\* for the next page, one that returns a shorter (or empty) page appends it
\* and ends the fetch with the accumulated list; when the pages so far are a
\* prefix of the listing the result is the whole listing; and every fetch
\* whose requests settle comes to an end.
C28_PagesUntilShortPage ==
    /\ [](discPc = "fetching" => (page >= 1 /\ Len(repos) = (page - 1) * PerPage))
    /\ [][\A written \in BOOLEAN :
            (discPc = "fetching" /\ FetchPage(written)) =>
                LET response == SubSeq(remote, (page - 1) * PerPage + 1,
                                       IF page * PerPage < Len(remote)
                                       THEN page * PerPage ELSE Len(remote))
                IN  IF Len(response) = PerPage
                    THEN /\ discPc' = "fetching"
                         /\ page' = page + 1
                         /\ repos' = repos \o response
                    ELSE /\ discPc' = "idle"
                         /\ result' = FilterRepositories(repos \o response, config)
                         /\ (written => cacheFile'.repositories = repos \o response)
                         /\ (/\ Len(remote) >= Len(repos)
                             /\ repos = SubSeq(remote, 1, Len(repos))) =>
                                (repos \o response = remote)]_vars
    /\ (discPc = "fetching") ~> (discPc = "idle")

\* A listing of exactly one full page was fetched: a second, empty page was
\* requested and the result is the listing.
C28_Witness ==
    /\ discPc = "idle"
    /\ Len(remote) = PerPage
    /\ cacheFile.kind = "cache" /\ cacheFile.repositories = remote
    /\ cacheFile.lastFetch = now /\ now > 0
    /\ result = FilterRepositories(remote, config)

\* C29: the filter returns exactly the repositories of its input, in input
\* order, that the configuration keeps, and filtering its output again
\* changes nothing; a call answered from the cache and a call answered by a
\* fetch both return that projection of the list they read.
C29_FilterIsProjection ==
    [][/\ \A list \in RemoteLists :
             /\ Filtered(list, config) = SelectSeq(list, LAMBDA r : Keeps(r, config))
             /\ Filtered(Filtered(list, config), config) = Filtered(list, config)
       /\ (Usable(cacheFile, now) /\ DiscoverCall(FALSE)) =>
             result' = Returned(SelectSeq(cacheFile.repositories,
                                          LAMBDA r : Keeps(r, config)))
       /\ (discPc = "fetching" /\ discPc' = "idle" /\ result'.kind = "ok") =>
             result' = Returned(SelectSeq(repos \o PageOf(remote, page),
                                          LAMBDA r : Keeps(r, config)))]_vars

\* A call answered from the cache returned some of the cached repositories
\* and left others out.
C29_Witness ==
    /\ discPc = "idle" /\ hadUsable /\ ~forceRefresh
    /\ Usable(cacheFile, now)
    /\ result = FilterRepositories(cacheFile.repositories, config)
    /\ result.kind = "ok"
    /\ Len(result.repos) > 0
    /\ Len(result.repos) < Len(cacheFile.repositories)

\* C30: a call with forceRefresh goes to the API whatever the cache holds,
\* and a fetch that succeeds leaves in the cache exactly the fetched list, the
\* configured organization and the time of the write (or, when the write
\* fails, the file as it was).
C30_ForcedFetchReplacesEntry ==
    [][/\ DiscoverCall(TRUE) => (discPc' = "fetching" /\ result' = NoResult)
       /\ \A written \in BOOLEAN :
             (discPc = "fetching" /\ FetchPage(written) /\ discPc' = "idle") =>
                 cacheFile' = IF written
                              THEN [kind |-> "cache",
                                    repositories |-> repos \o PageOf(remote, page),
                                    lastFetch |-> now,
                                    organization |-> Org]
                              ELSE cacheFile]_vars

\* A forced call made while a usable entry existed has fetched and replaced
\* that entry with a different list.
C30_Witness ==
    /\ discPc = "idle" /\ forceRefresh /\ hadUsable
    /\ result.kind = "ok"
    /\ cacheFile.kind = "cache" /\ cacheFile.organization = Org
    /\ cacheFile.lastFetch = now /\ now > 0
    /\ cacheFile.repositories = remote /\ Len(remote) > 0

\* C26: a daemon that was stopped has no signal handler registered.
C26_StopRemovesHandlers ==
    \A p \in Procs :
        (alive[p] /\ pc[p] = "idle" /\ ~isRunning[p] /\ shutdownRequested[p]) =>
            handlers[p] = 0

\* C27: the lifecycle only moves forward: a daemon that was stopped is never
\* running again, a start() refused for the lock leaves the daemon not
\* running, and a pass begins only in a running daemon.
C27_LifecycleMovesForward ==
    [][\A p \in Procs :
          (alive[p] /\ alive'[p]) =>
              /\ (shutdownRequested[p] /\ ~isRunning[p]) => ~isRunning'[p]
              /\ (startResult'[p] = "alreadyRunning") => ~isRunning'[p]
              /\ (calls'[p] > calls[p]) => isRunning'[p]]_vars

C25_GetStatusReturnsSavedLedger ==
    [][/\ GetStatusCall =>
             answer'.value = IF stateFile.kind = "status" THEN {stateFile} ELSE {}
       /\ \A p \in Procs :
             (pc[p] = "saveStatus" /\ pc'[p] = "idle" /\ alive'[p]) =>
                 GetStatus(stateFile') = {loaded[p]}]_vars

\* getStatus() answered null on a state file that does not parse, left by a
\* torn save.
C25_Witness ==
    /\ answer = [query |-> "getStatus", value |-> NULL]
    /\ stateFile = CorruptFile
    /\ passesDone > 0

\* C31: whatever happens during a cache write, the cache file afterwards is
\* the file as it was or the complete new entry.
C31_CacheWriteIsAtomic ==
    [][\/ cacheFile' = cacheFile
       \/ /\ discPc = "fetching"
          /\ cacheFile' = [kind |-> "cache",
                           repositories |-> repos \o PageOf(remote, page),
                           lastFetch |-> now,
                           organization |-> Org]]_vars

\* C39: a request that fails, on the first page or on a later one, leaves
\* the cache file as it was and ends the call with an error, not a list.
C39_FailedFetchLeavesCache ==
    [][\A e \in RequestErrors :
          FetchFail(e) => (cacheFile' = cacheFile /\ result'.kind = "error")]_vars

\* A call failed on its second request, after a full first page, and the
\* cache file holds no entry.
C39_Witness ==
    /\ discPc = "idle"
    /\ result.kind = "error"
    /\ requests = 2
    /\ cacheFile = NoFile

\* C32: a pass that is saved leaves in the ledger an entry for every
\* repository it worked on, and every repository that had an entry before
\* the save has one after it.
C32_PassUpsertsRepositories ==
    [][\A p \in Procs :
          (pc[p] = "saveStatus" /\ pc'[p] = "idle" /\ alive'[p]) =>
              /\ stateFile'.kind = "status"
              /\ \A r \in PassRepos : \E e \in stateFile'.repositories : e.name = r
              /\ stateFile.kind = "status" =>
                     \A e \in stateFile.repositories :
                         \E d \in stateFile'.repositories : d.name = e.name]_vars

\* C33: start() on a lock file that is no valid lock record goes on to remove
\* the file and to write its own record.
C33_InvalidLockIsRemoved ==
    [][\A p \in Procs :
          (/\ lockFile \in InvalidLocks
           /\ alive[p] /\ pc[p] = "idle" /\ ~isRunning[p]
           /\ StartCall(p)) =>
              /\ startResult'[p] = "pending"
              /\ pc'[p] = "removeLock"]_vars

C35_ForeignLockNeverRemoved ==
    [][\A p \in Procs :
          (/\ lockFile.kind = "lock"
           /\ "pid" \in DOMAIN lockFile
           /\ lockFile.pid \in Procs \ {p}
           /\ alive[lockFile.pid]
           /\ Stop(p) \/ Signal(p) \/ StartRemoveLock(p)) =>
              lockFile' = lockFile]_vars

\* C36: an instance on which stop() has taken effect begins no pass again;
\* a later start() on it still writes its lock record and marks it running.
C36_NoPassAfterStop ==
    [][\A p \in Procs :
          (shutdownRequested[p] /\ alive[p] /\ alive'[p]) =>
              /\ calls'[p] = calls[p]
              /\ inflight'[p] \subseteq
                    inflight[p] \cup {[f EXCEPT !.phase = "save", !.end = Some(now)] :
                                         f \in inflight[p]}
              /\ timers'[p] \subseteq timers[p]
              /\ StartCreateLock(p) =>
                    /\ lockFile' = CreateLock(p)
                    /\ isRunning'[p]
                    /\ startResult'[p] = "resolved"]_vars

\* A stopped instance was started again: it is running and holds the lock,
\* with no pass in flight and no timer.
C36_Witness ==
    \E p \in Procs :
        /\ alive[p] /\ shutdownRequested[p] /\ isRunning[p]
        /\ lockFile = CreateLock(p)
        /\ startResult[p] = "resolved"
        /\ inflight[p] = {} /\ timers[p] = {}
        /\ handlers[p] = 2

\* C37: a daemon has at most one timer pending, and none while one of its
\* passes is in flight.
C37_OneTimerNoneDuringPass ==
    \A p \in Procs :
        /\ Cardinality(timers[p]) <= 1
        /\ inflight[p] # {} => timers[p] = {}

\* A timer is pending after a pass that a timer began.
C37_Witness ==
    \E p \in Procs :
        /\ alive[p] /\ isRunning[p]
        /\ Cardinality(timers[p]) = 1
        /\ inflight[p] = {}
        /\ completed[p] = 2

\* C38: start() on a running instance returns having changed nothing: no
\* pass, no write of the lock file, no handler, no timer.
C38_StartWhileRunningIsNoOp ==
    [][\A p \in Procs :
          (alive[p] /\ pc[p] = "idle" /\ isRunning[p] /\ StartCall(p)) =>
              /\ startResult'[p] = "noop"
              /\ UNCHANGED <<now, fileVars, alive, enabled, isRunning, intervalHandle,
                             shutdownRequested, handlers, timers, pc, probe, inflight,
                             loaded, histVars>>]_vars

\* start() returned as a no-op while the initial pass was in flight.
C38_Witness ==
    \E p \in Procs :
        /\ alive[p] /\ isRunning[p]
        /\ startResult[p] = "noop"
        /\ lockFile = CreateLock(p)
        /\ \E f \in inflight[p] : f.origin = "start" /\ f.phase = "exec"

\* C40: a static query leaves the lock file and the state file as they are,
\* whatever they hold.
C40_QueriesAreReadOnly ==
    [][(answer' # answer) => (lockFile' = lockFile /\ stateFile' = stateFile)]_vars

\* isRunning() answered false on a lock file that is stale or does not
\* parse, and the file is still there.
C40_Witness ==
    /\ answer = [query |-> "isRunning", value |-> FALSE]
    /\ lockFile \in {CorruptFile, CreateLock(DeadPid)}

====
